---- MODULE Spec2Model ----
(***************************************************************************)
(* Four buttons (P, N, R, D), four LEDs, four bounded channels.            *)
(*                                                                         *)
(* main spawns one read_button task per button; each read_button task      *)
(* spawns one set_led task, then loops: debounce, debounce, four channel   *)
(* sends (On to its own channel, Off to the others), debounce.  Each       *)
(* set_led task drains its channel with try_receive and sleeps 250 ms when *)
(* the channel is empty.                                                   *)
(*                                                                         *)
(* The executor is single-threaded and cooperative: one task runs at a     *)
(* time, from one suspension point to the next.  Each action below is one  *)
(* poll of one task: everything the task does from the point where it was  *)
(* suspended to the point where it suspends again.  The input lines and    *)
(* the timers are the environment: a line may change level at any moment,  *)
(* and a timer expires at some moment after it was started.                *)
(***************************************************************************)
EXTENDS Integers, Sequences, FiniteSets, TLC

(* ---------------------------------------------------------------- bounds *)

\* Number of level changes the environment makes on the four input lines.
MaxEdges == 6

\* Slots per channel.  The channels are declared with 64 slots
\* (main.rs:25-28); every property below is checked for a smaller capacity,
\* which makes the full-channel case reachable within MaxEdges.
Capacity == 1

\* Slots per channel in the runs in which a channel queues two commands
\* (SpecW).
WideCapacity == 2

\* The debounce window (20 ms, main.rs:60) in ticks of the clock of SpecT.
WindowTicks == 2

\* Number of level changes in the runs with the clock (SpecT).
MaxTimedEdges == 4

(* ------------------------------------------------------------- constants *)

\* enum Button { P, N, R, D }
Button == {"P", "N", "R", "D"}

\* enum LedStatus { On, Off }
LedStatus == {"On", "Off"}

\* Level of a pin.  The inputs have pull-ups: a pressed button reads Low.
Level == {"Low", "High"}

\* The three places where read_button awaits btn.debounce().
FirstDebounce == 74
SecondDebounce == 80
ThirdDebounce == 114

\* #[embassy_executor::task(pool_size = 4)] of set_led and of read_button.
SetLedPool == 4
ReadButtonPool == 4

VARIABLES
    line,       \* line[b]: level of the input pin of button b
    edges,      \* level changes made by the environment so far
    slots,      \* slots per channel in this run
    mainpc,     \* position of main
    pool,       \* pool[t]: instances of task function t spawned so far
    bpc,        \* bpc[b]: where read_button(b) is suspended
    site,       \* site[b]: the debounce call read_button(b) is in (source line)
    l1,         \* l1[b]: the level debounce() sampled before waiting
    sendIdx,    \* sendIdx[b]: which of the four sends read_button(b) is at
    channel,    \* channel[c]: queue of CHANNEL_c
    apc,        \* apc[b]: where set_led(b) is suspended
    led,        \* led[b]: level of the LED pin of button b
    \* history variables, read by the properties only
    rets,       \* rets[b]: <<site, level>> of every debounce return of b
    lastPressed,\* button whose press was confirmed most recently
    overlap,    \* a button went down while another one was down or while
                \* the task of another one was still handling its release
    sent,       \* sent[c]: every command sent on CHANNEL_c, with its sender
    consumed,   \* consumed[c]: every command set_led(c) received, in order
    \* the clock, advanced under SpecT only
    timer,      \* timer[b]: ticks left on the debounce timer of b
    held,       \* held[b]: ticks since the last edge on line b, capped
    callEdges,  \* callEdges[b]: edges on line b during the pending debounce call
    retEdges,   \* retEdges[b]: callEdges[b] of the call that returned last
    \* history of the suspended sends, recorded under SpecF only
    suspended,  \* the buttons whose task has been suspended at a send
    \* the press durations and the log, recorded under SpecD only
    started,    \* started[b]: ticks since `start = Instant::now()`, capped
    logged      \* logged[b]: the info! lines of read_button(b), in order

vars == <<line, edges, slots, mainpc, pool, bpc, site, l1, sendIdx, channel, apc, led,
          rets, lastPressed, overlap, sent, consumed, timer, held, callEdges,
          retEdges, suspended, started, logged>>

envVars == <<line, edges, slots>>
btnVars == <<bpc, site, l1, sendIdx>>
ledVars == <<apc, led>>
histVars == <<rets, lastPressed, overlap, sent, consumed>>
clockVars == <<timer, held, callEdges, retEdges>>
fairVars == <<suspended>>
logVars == <<started, logged>>
auxVars == <<suspended, started, logged>>

(* ------------------------------------------------------------- operators *)

Toggle(lv) == IF lv = "Low" THEN "High" ELSE "Low"

\* A dispatch whose On goes to the channel after the button's own, against
\* which C17 is tested.
DispatchShifted(b) ==
    CASE b = "P" -> << <<"P", "Off">>, <<"N", "On">>,  <<"R", "Off">>, <<"D", "Off">> >>
      [] b = "N" -> << <<"P", "Off">>, <<"N", "Off">>, <<"R", "On">>,  <<"D", "Off">> >>
      [] b = "R" -> << <<"P", "Off">>, <<"N", "Off">>, <<"R", "Off">>, <<"D", "On">> >>
      [] b = "D" -> << <<"P", "On">>,  <<"N", "Off">>, <<"R", "Off">>, <<"D", "Off">> >>

\* A faulty dispatch table (the arm of N also switches P on), against
\* which the exclusion property C2 is tested.
DispatchCopyPaste(b) ==
    CASE b = "P" -> << <<"P", "On">>,  <<"N", "Off">>, <<"R", "Off">>, <<"D", "Off">> >>
      [] b = "N" -> << <<"P", "On">>,  <<"N", "On">>,  <<"R", "Off">>, <<"D", "Off">> >>
      [] b = "R" -> << <<"P", "Off">>, <<"N", "Off">>, <<"R", "On">>,  <<"D", "Off">> >>
      [] b = "D" -> << <<"P", "Off">>, <<"N", "Off">>, <<"R", "Off">>, <<"D", "On">> >>

\* The four sends of read_button(b), in program order: <<channel, status>>.
Dispatch(b) ==
    CASE b = "P" -> << <<"P", "On">>,  <<"N", "Off">>, <<"R", "Off">>, <<"D", "Off">> >>
      [] b = "N" -> << <<"P", "Off">>, <<"N", "On">>,  <<"R", "Off">>, <<"D", "Off">> >>
      [] b = "R" -> << <<"P", "Off">>, <<"N", "Off">>, <<"R", "On">>,  <<"D", "Off">> >>
      [] b = "D" -> << <<"P", "Off">>, <<"N", "Off">>, <<"R", "Off">>, <<"D", "On">> >>

\* A channel that takes one command more than it has slots, against which
\* C10 is tested.
IsFullOffByOne(q) == Len(q) > slots

\* A channel is full when it holds as many commands as it has slots.
IsFull(q) == Len(q) >= slots

\* A channel that drops what it is sent, against which C9 is tested.
TrySendDrop(q, m) == q

\* Channel::try_send: the queue after the send, or the queue unchanged when
\* it is full.
TrySend(q, m) == IF IsFull(q) THEN q ELSE Append(q, m)

\* Channel::try_receive on a queue that is not empty: the command received
\* and the queue afterwards.
TryReceive(q) == <<Head(q), Tail(q)>>

\* A dispatch that leaves the match after its first send, against which
\* C15 is tested.
SendFromFirstOnly(b, k, ch, log) ==
    IF k > 4 \/ Len(ch[Dispatch(b)[k][1]]) >= slots
    THEN [channel |-> ch, sent |-> log, at |-> k]
    ELSE [channel |-> [ch EXCEPT ![Dispatch(b)[k][1]] = Append(@, Dispatch(b)[k][2])],
          sent |-> [log EXCEPT ![Dispatch(b)[k][1]] = Append(@, <<Dispatch(b)[k][2], b>>)],
          at |-> 5]

\* The sends of read_button(b) from the k-th on, as far as they go without
\* suspending: the channels and the history afterwards, and the send the
\* task stops at (5: all four are done).
RECURSIVE SendFrom(_, _, _, _)
SendFrom(b, k, ch, log) ==
    IF k > 4 \/ IsFull(ch[Dispatch(b)[k][1]])
    THEN [channel |-> ch, sent |-> log, at |-> k]
    ELSE SendFrom(b, k + 1,
             [ch EXCEPT ![Dispatch(b)[k][1]] = TrySend(@, Dispatch(b)[k][2])],
             [log EXCEPT ![Dispatch(b)[k][1]] = Append(@, <<Dispatch(b)[k][2], b>>)])

\* A faulty match (the arms exchanged), against which C12 is tested.
DriveSwapped(st) == IF st = "On" THEN "Low" ELSE "High"

\* A faulty match (both arms set_low), against which C5 is tested.
DriveStuckLow(st) == "Low"

\* set_led's match: LedStatus::On => set_high, LedStatus::Off => set_low.
Drive(st) == IF st = "On" THEN "High" ELSE "Low"

\* A set_led whose Off arm toggles the pin, against which C16 is tested.
RECURSIVE DrainToggle(_, _, _)
DrainToggle(lv, q, got) ==
    IF q = <<>>
    THEN [led |-> lv, consumed |-> got]
    ELSE DrainToggle(IF Head(q) = "On" THEN "High" ELSE Toggle(lv), Tail(q),
                     Append(got, Head(q)))

\* set_led's loop for as long as try_receive returns commands: the level of
\* the pin and the commands received, in order.
RECURSIVE Drain(_, _, _)
Drain(lv, q, got) ==
    IF q = <<>>
    THEN [led |-> lv, consumed |-> got]
    ELSE Drain(Drive(TryReceive(q)[1]), TryReceive(q)[2],
               Append(got, TryReceive(q)[1]))

(* ------------------------------------------------------------------ init *)

\* The state after construction, with n slots per channel.
Start(n) ==
    /\ line = [b \in Button |-> "High"]
    /\ edges = 0
    /\ slots = n
    /\ mainpc = "start"
    /\ pool = [read_button |-> 0, set_led |-> 0]
    /\ bpc = [b \in Button |-> "unspawned"]
    /\ site = [b \in Button |-> FirstDebounce]
    /\ l1 = [b \in Button |-> "High"]
    /\ sendIdx = [b \in Button |-> 1]
    /\ channel = [c \in Button |-> <<>>]
    /\ apc = [b \in Button |-> "unspawned"]
    /\ led = [b \in Button |-> "Low"]
    /\ rets = [b \in Button |-> <<>>]
    /\ lastPressed = "none"
    /\ overlap = FALSE
    /\ sent = [c \in Button |-> <<>>]
    /\ consumed = [c \in Button |-> <<>>]
    /\ timer = [b \in Button |-> 0]
    /\ held = [b \in Button |-> WindowTicks]
    /\ callEdges = [b \in Button |-> 0]
    /\ retEdges = [b \in Button |-> 0]
    /\ suspended = {}
    /\ started = [b \in Button |-> 0]
    /\ logged = [b \in Button |-> <<>>]

Init == Start(Capacity)

(* ----------------------------------------------------------- environment *)

\* The start-up polls: main, the four read_button tasks up to their first
\* wait_for_any_edge, the four set_led tasks up to their first sleep.
Started == \A x \in Button : apc[x] = "sleep"

\* Button x is down, or its task is handling a transition.
Busy(x) == line[x] = "Low" \/ bpc[x] \in {"wait_timer", "send"}

\* The buttons that may be held down when the program starts.
HeldAtStart == {"N"}

\* The input line of button b changes level.  A task suspended in
\* wait_for_any_edge on that line is woken and starts the debounce timer.
\* A change during the start-up polls commutes with them: before the first
\* sample of line b it is a change before main, after it a change after the
\* last start-up poll.  Before main the only change that matters is a
\* button going down.
LineEdge(b) ==
    /\ edges < MaxEdges
    /\ (mainpc = "start" /\ b \in HeldAtStart /\ line[b] = "High") \/ Started
    /\ line' = [line EXCEPT ![b] = Toggle(@)]
    /\ edges' = edges + 1
    /\ bpc' = [bpc EXCEPT ![b] = IF @ = "wait_edge" THEN "wait_timer" ELSE @]
    /\ overlap' = (overlap \/ (line[b] = "High" /\ \E x \in Button \ {b} : Busy(x)))
    /\ UNCHANGED <<slots, mainpc, pool, site, l1, sendIdx, channel, ledVars, rets,
                   lastPressed, sent, consumed>>

(* ------------------------------------------------------------------ main *)

\* A pool that refuses its last slot, against which C18 is tested.
PoolFreeOffByOne(n, size) == n < size - 1

\* spawn() succeeds when fewer instances of the task function are live than
\* its pool holds; the tasks of this program never return, so every
\* instance spawned is live.
PoolFree(n, size) == n < size

\* unwrap() of a failed spawn panics: nothing runs any more.
Halt ==
    /\ mainpc' = "halted"
    /\ bpc' = [b \in Button |-> "halted"]
    /\ apc' = [b \in Button |-> "halted"]

\* main, first poll: spawn the four read_button tasks one after the other
\* (they run once main is suspended in its loop), unwrapping every result.
Main ==
    /\ mainpc = "start"
    /\ IF \A k \in 0..(Cardinality(Button) - 1) :
             PoolFree(pool.read_button + k, ReadButtonPool)
       THEN /\ mainpc' = "loop"
            /\ bpc' = [b \in Button |-> "start"]
            /\ pool' = [pool EXCEPT !.read_button = @ + Cardinality(Button)]
            /\ UNCHANGED apc
       ELSE /\ Halt
            /\ UNCHANGED pool
    /\ UNCHANGED <<envVars, site, l1, sendIdx, channel, led, histVars>>

(* ----------------------------------------------------------- read_button *)

\* read_button(b) from the call of debounce() at source line s to the
\* suspension in wait_for_any_edge: sample l1.
EnterDebounce(b, s) ==
    /\ site' = [site EXCEPT ![b] = s]
    /\ l1' = [l1 EXCEPT ![b] = line[b]]
    /\ bpc' = [bpc EXCEPT ![b] = "wait_edge"]

\* read_button(b) from the k-th send on: as many sends as go through; then
\* either suspended at a full channel or on to the debounce of line 114.
EnterSends(b, k) ==
    LET r == SendFrom(b, k, channel, sent)
    IN /\ channel' = r.channel
       /\ sent' = r.sent
       /\ IF r.at > 4
          THEN /\ EnterDebounce(b, ThirdDebounce)
               /\ sendIdx' = [sendIdx EXCEPT ![b] = 1]
          ELSE /\ bpc' = [bpc EXCEPT ![b] = "send"]
               /\ sendIdx' = [sendIdx EXCEPT ![b] = r.at]
               /\ UNCHANGED <<site, l1>>

\* First poll, lines 60-74: build the Debouncer, pick the receiver of the
\* task's own channel, spawn set_led on it, enter the loop and the first
\* debounce.
ButtonStart(b) ==
    /\ bpc[b] = "start"
    /\ IF PoolFree(pool.set_led, SetLedPool)
       THEN /\ apc' = [apc EXCEPT ![b] = "init"]
            /\ pool' = [pool EXCEPT !.set_led = @ + 1]
            /\ EnterDebounce(b, FirstDebounce)
            /\ UNCHANGED mainpc
       ELSE /\ Halt
            /\ UNCHANGED <<pool, site, l1>>
    /\ UNCHANGED <<envVars, sendIdx, channel, led, histVars>>

\* Faulty comparisons of the two samples, against which C6 and C8 are
\* tested: one that reports every sample, one that reports none.
ConfirmedAlways(a, c) == TRUE
ConfirmedNever(a, c) == FALSE

\* debounce() returns l2 exactly when it differs from l1.
Confirmed(a, c) == a # c

\* Poll after the debounce window: sample l2.  If it equals l1, debounce()
\* starts over.  If it differs, debounce() returns and read_button goes on:
\* after line 74 to the debounce of line 80, after line 80 to the four
\* sends, after line 114 to the top of the loop.
DebounceTimer(b) ==
    /\ bpc[b] = "wait_timer"
    /\ IF ~Confirmed(l1[b], line[b])
       THEN /\ EnterDebounce(b, site[b])
            /\ UNCHANGED <<sendIdx, channel, histVars>>
       ELSE /\ rets' = [rets EXCEPT ![b] = Append(@, <<site[b], line[b]>>)]
            /\ lastPressed' = IF line[b] = "Low" THEN b ELSE lastPressed
            /\ UNCHANGED <<overlap, consumed>>
            /\ CASE site[b] = FirstDebounce ->
                      /\ EnterDebounce(b, SecondDebounce)
                      /\ UNCHANGED <<sendIdx, channel, sent>>
                 [] site[b] = SecondDebounce ->
                      EnterSends(b, 1)
                 [] site[b] = ThirdDebounce ->
                      /\ EnterDebounce(b, FirstDebounce)
                      /\ UNCHANGED <<sendIdx, channel, sent>>
    /\ UNCHANGED <<envVars, mainpc, pool, ledVars>>

\* Poll of a task suspended in CHANNEL_c.send(..).await, after the receiver
\* freed a slot: the send completes and the task goes on.
SendResume(b) ==
    /\ bpc[b] = "send"
    /\ ~IsFull(channel[Dispatch(b)[sendIdx[b]][1]])
    /\ EnterSends(b, sendIdx[b])
    /\ UNCHANGED <<envVars, mainpc, pool, ledVars, rets, lastPressed, overlap,
                   consumed>>

(* --------------------------------------------------------------- set_led *)

\* First poll, lines 42-48: Output::new(led_pin, Level::Low); the loop
\* applies what the channel holds and the task sleeps 250 ms.
LedStart(b) ==
    /\ apc[b] = "init"
    /\ apc' = [apc EXCEPT ![b] = "sleep"]
    /\ led' = [led EXCEPT ![b] = Drain("Low", channel[b], <<>>).led]
    /\ consumed' = [consumed EXCEPT ![b] = @ \o Drain("Low", channel[b], <<>>).consumed]
    /\ channel' = [channel EXCEPT ![b] = <<>>]
    /\ UNCHANGED <<envVars, mainpc, pool, btnVars, rets, lastPressed, overlap, sent>>

\* A set_led that sleeps again without calling try_receive, against which
\* C11 is tested.
LedTimerIdle(b) ==
    /\ apc[b] = "sleep"
    /\ channel[b] # <<>>
    /\ UNCHANGED <<envVars, mainpc, pool, btnVars, channel, ledVars, histVars>>

\* Poll after the 250 ms timer, lines 44-50: every command try_receive
\* returns is applied to the pin; on an empty channel the task sleeps
\* again.  (A poll that finds the channel empty changes nothing.)
LedTimer(b) ==
    /\ apc[b] = "sleep"
    /\ channel[b] # <<>>
    /\ led' = [led EXCEPT ![b] = Drain(@, channel[b], <<>>).led]
    /\ consumed' = [consumed EXCEPT ![b] = @ \o Drain(led[b], channel[b], <<>>).consumed]
    /\ channel' = [channel EXCEPT ![b] = <<>>]
    /\ UNCHANGED <<envVars, mainpc, pool, btnVars, apc, rets, lastPressed, overlap,
                   sent>>

(* ------------------------------------------------------------------ spec *)

\* The system with time abstracted: a timer expires at some later moment.
Next ==
    \/ Main /\ UNCHANGED <<clockVars, auxVars>>
    \/ \E b \in Button : LineEdge(b) /\ UNCHANGED <<clockVars, auxVars>>
    \/ \E b \in Button : ButtonStart(b) /\ UNCHANGED <<clockVars, auxVars>>
    \/ \E b \in Button : DebounceTimer(b) /\ UNCHANGED <<clockVars, auxVars>>
    \/ \E b \in Button : SendResume(b) /\ UNCHANGED <<clockVars, auxVars>>
    \/ \E b \in Button : LedStart(b) /\ UNCHANGED <<clockVars, auxVars>>
    \/ \E b \in Button : LedTimer(b) /\ UNCHANGED <<clockVars, auxVars>>

Spec == Init /\ [][Next]_vars

\* The same system with channels of WideCapacity slots.
InitW == Start(WideCapacity)
SpecW == InitW /\ [][Next]_vars

(* ------------------------------------------------- the system with a clock *)

\* The buttons that are operated in the runs with the clock.
TimedButton == {"P", "N"}

\* A level change with the clock: the line's rest time starts over, and the
\* task woken from wait_for_any_edge starts Timer::after(20 ms).
TimedLineEdge(b) ==
    /\ edges < MaxTimedEdges
    /\ LineEdge(b)
    /\ held' = [held EXCEPT ![b] = 0]
    /\ timer' = [timer EXCEPT ![b] = IF bpc[b] = "wait_edge" THEN WindowTicks ELSE @]
    /\ callEdges' = [callEdges EXCEPT ![b] =
                        IF bpc[b] \in {"wait_edge", "wait_timer"} THEN @ + 1 ELSE @]
    /\ UNCHANGED <<retEdges, auxVars>>

\* A poll that does not wait for the timer, against which C7 is tested.
TimedDebounceTimerEarly(b) ==
    /\ DebounceTimer(b)
    /\ IF Confirmed(l1[b], line[b])
       THEN /\ retEdges' = [retEdges EXCEPT ![b] = callEdges[b]]
            /\ callEdges' = [callEdges EXCEPT ![b] = 0]
       ELSE UNCHANGED <<callEdges, retEdges>>
    /\ UNCHANGED <<timer, held, auxVars>>

\* The poll after the debounce window, once the timer has run out.
ClockedPoll(b) ==
    /\ timer[b] = 0
    /\ DebounceTimer(b)
    /\ IF Confirmed(l1[b], line[b])
       THEN /\ retEdges' = [retEdges EXCEPT ![b] = callEdges[b]]
            /\ callEdges' = [callEdges EXCEPT ![b] = 0]
       ELSE UNCHANGED <<callEdges, retEdges>>
    /\ UNCHANGED <<timer, held>>

TimedDebounceTimer(b) == ClockedPoll(b) /\ UNCHANGED auxVars

\* One tick passes.  A task whose timer has run out is polled before the
\* next tick: a poll takes far less than a tick.
\* Time stands still when nothing measures it (more: something else does).
Advance(more) ==
    /\ \A b \in Button : bpc[b] = "wait_timer" => timer[b] > 0
    /\ more \/ \E b \in Button : timer[b] > 0 \/ held[b] < WindowTicks
    /\ timer' = [b \in Button |-> IF timer[b] > 0 THEN timer[b] - 1 ELSE 0]
    /\ held' = [b \in Button |-> IF held[b] < WindowTicks THEN held[b] + 1 ELSE held[b]]
    /\ UNCHANGED <<envVars, mainpc, pool, btnVars, channel, ledVars, histVars,
                   callEdges, retEdges>>

Tick == Advance(FALSE) /\ UNCHANGED auxVars

NextT ==
    \/ Main /\ UNCHANGED <<clockVars, auxVars>>
    \/ \E b \in TimedButton : TimedLineEdge(b)
    \/ \E b \in Button : ButtonStart(b) /\ UNCHANGED <<clockVars, auxVars>>
    \/ \E b \in Button : TimedDebounceTimer(b)
    \/ \E b \in Button : SendResume(b) /\ UNCHANGED <<clockVars, auxVars>>
    \/ \E b \in Button : LedStart(b) /\ UNCHANGED <<clockVars, auxVars>>
    \/ \E b \in Button : LedTimer(b) /\ UNCHANGED <<clockVars, auxVars>>
    \/ Tick

\* Time passes, and the executor polls a task whose debounce timer has run
\* out.
SpecT ==
    /\ Init
    /\ [][NextT]_vars
    /\ WF_vars(Tick)
    /\ \A b \in Button : WF_vars(TimedDebounceTimer(b))

(* ----------------------------------- the system with press durations *)

\* The thresholds of the classification the specification describes
\* (1000 ms and 5000 ms) and the longest duration measured, in ticks.
HeldTicks == 3
LongTicks == 4
MaxElapsed == 5

\* info!("Button Press"), line 76.
ButtonPress == <<"Button Press", 0>>

\* A log line that names the bucket of the duration, against which C14 is
\* tested.
PressedForBucket(d) ==
    <<IF d < HeldTicks THEN "ShortPress"
      ELSE IF d <= LongTicks THEN "MediumPress" ELSE "Released", d>>

\* info!("Button pressed for: {}ms", start.elapsed()), lines 82 and 115.
PressedFor(d) == <<"Button pressed for", d>>

\* The poll after the debounce window, with what read_button logs when
\* debounce() returns: after line 74 it takes `start` and logs the press,
\* after lines 80 and 114 it logs the time elapsed since `start`.
LoggedPoll(b) ==
    /\ ClockedPoll(b)
    /\ UNCHANGED fairVars
    /\ IF ~Confirmed(l1[b], line[b])
       THEN UNCHANGED logVars
       ELSE IF site[b] = FirstDebounce
            THEN /\ started' = [started EXCEPT ![b] = 0]
                 /\ logged' = [logged EXCEPT ![b] = Append(@, ButtonPress)]
            ELSE /\ logged' = [logged EXCEPT ![b] = Append(@, PressedFor(started[b]))]
                 /\ UNCHANGED started

\* `start` of read_button(b) is live: the task is past line 75.
Timing(b) == site[b] # FirstDebounce /\ started[b] < MaxElapsed

\* One tick passes, also while a press is being timed.
TickD ==
    /\ Advance(\E b \in Button : Timing(b))
    /\ started' = [b \in Button |-> IF Timing(b) THEN started[b] + 1 ELSE started[b]]
    /\ UNCHANGED <<fairVars, logged>>

NextD ==
    \/ Main /\ UNCHANGED <<clockVars, auxVars>>
    \/ \E b \in TimedButton : TimedLineEdge(b)
    \/ \E b \in Button : ButtonStart(b) /\ UNCHANGED <<clockVars, auxVars>>
    \/ \E b \in Button : LoggedPoll(b)
    \/ \E b \in Button : SendResume(b) /\ UNCHANGED <<clockVars, auxVars>>
    \/ \E b \in Button : LedStart(b) /\ UNCHANGED <<clockVars, auxVars>>
    \/ \E b \in Button : LedTimer(b) /\ UNCHANGED <<clockVars, auxVars>>
    \/ TickD

SpecD == Init /\ [][NextD]_vars

(* ------------------------------------- the system with fair scheduling *)

\* Number of level changes in the runs with fair scheduling (SpecF).
MaxFairEdges == 4

\* The actions of the system, recording the tasks that are suspended at a
\* send when the action is done.
Recorded(A) ==
    /\ A
    /\ suspended' = suspended \cup {b \in Button : bpc'[b] = "send"}
    /\ UNCHANGED <<clockVars, logVars>>

FairLineEdge(b) == edges < MaxFairEdges /\ Recorded(LineEdge(b))
FairDebounceTimer(b) == Recorded(DebounceTimer(b))
FairSendResume(b) == Recorded(SendResume(b))
FairLedStart(b) == Recorded(LedStart(b))
FairLedTimer(b) == Recorded(LedTimer(b))

NextF ==
    \/ Recorded(Main)
    \/ \E b \in Button : FairLineEdge(b)
    \/ \E b \in Button : Recorded(ButtonStart(b))
    \/ \E b \in Button : FairDebounceTimer(b)
    \/ \E b \in Button : FairSendResume(b)
    \/ \E b \in Button : FairLedStart(b)
    \/ \E b \in Button : FairLedTimer(b)

\* The executor polls every task that is ready: a set_led task whose
\* 250 ms timer has run out, a read_button task whose debounce timer has
\* run out, and a read_button task woken at its send.
SpecF ==
    /\ Init
    /\ [][NextF]_vars
    /\ \A b \in Button :
          /\ WF_vars(FairLedStart(b))
          /\ WF_vars(FairLedTimer(b))
          /\ WF_vars(FairSendResume(b))
          /\ WF_vars(FairDebounceTimer(b))

(* ------------------------------------------------------------ properties *)

TypeOK ==
    /\ line \in [Button -> Level]
    /\ led \in [Button -> Level]
    /\ slots \in {Capacity, WideCapacity}
    /\ pool \in [{"read_button", "set_led"} -> Nat]
    /\ \A c \in Button : Len(channel[c]) <= slots

\* The LEDs that are on.
OnSet == {b \in Button : led[b] = "High"}

\* Every channel has been drained by its set_led task.
Drained == \A c \in Button : channel[c] = <<>>

\* No read_button task is suspended between its four sends.
NoDispatchInProgress == \A b \in Button : bpc[b] # "send"

\* The senders of the commands of a channel's history, in order.
Senders(log) == [i \in 1..Len(log) |-> log[i][2]]

\* The statuses of the commands of a channel's history, in order.
Statuses(log) == [i \in 1..Len(log) |-> log[i][1]]

\* The dispatches reached all four channels in the same order.
SameOrder == \A c \in Button : Senders(sent[c]) = Senders(sent["P"])

\* Confirmed presses of button b: debounce returns with the level Low.
Presses(b) == Cardinality({i \in 1..Len(rets[b]) : rets[b][i][2] = "Low"})

\* Dispatches read_button(b) has begun: returns of the debounce of line 80.
Dispatches(b) ==
    Cardinality({i \in 1..Len(rets[b]) : rets[b][i][1] = SecondDebounce})

\* Every button is released, every task waits for the next edge and the
\* latest confirmed transition of every button that has one is a release.
AllReleased ==
    /\ Started
    /\ \A b \in Button :
          /\ line[b] = "High"
          /\ bpc[b] = "wait_edge"
          /\ rets[b] # <<>> => rets[b][Len(rets[b])][2] = "High"

(* -------------------------------------------------------------------- C1 *)

\* C1: after any sequence of presses, once every channel has been drained,
\* exactly one LED is On, the other three are Off, and the LED that is On is
\* the one of the most recently pressed button.  Stated for the sequences
\* in which a button goes down only when every other button is up and its
\* task is idle, and no two dispatches overlapped, at the moments when
\* every button is released again.
C1_SingleActiveSelection ==
    (/\ AllReleased /\ Drained /\ SameOrder
     /\ ~overlap /\ lastPressed # "none") => OnSet = {lastPressed}

(* -------------------------------------------------------------------- C2 *)

\* C2 as stated: in every reachable state at most one of the four LED
\* outputs is High.
C2_AtMostOneHigh == Cardinality(OnSet) <= 1

\* C2 as amended: at most one LED output is High in every state in which
\* every channel is drained, no task is suspended between its four sends
\* and the dispatches reached the four channels in the same order.
C2_AtMostOneHighWhenDrained ==
    (Drained /\ NoDispatchInProgress /\ SameOrder) => Cardinality(OnSet) <= 1

\* Two different buttons have dispatched, the channels are drained and one
\* LED is on.
C2_Witness ==
    /\ Drained /\ NoDispatchInProgress /\ SameOrder
    /\ Cardinality({b \in Button : Dispatches(b) > 0}) >= 2
    /\ Cardinality(OnSet) = 1

(* -------------------------------------------------------------------- C3 *)

\* C3: every debounced press of a button is dispatched (On on its own
\* channel, Off on the three others), one dispatch per press and none
\* skipped: a button has no more dispatches than confirmed presses, and
\* once the release of a press is confirmed every confirmed press of that
\* button has had its dispatch.
C3_DispatchPerPress ==
    \A b \in Button :
        /\ Dispatches(b) <= Presses(b)
        /\ (rets[b] # <<>> /\ rets[b][Len(rets[b])][2] = "High")
              => Presses(b) <= Dispatches(b)

(* -------------------------------------------------------------------- C4 *)

\* C4: for a button that is released when its task starts, in every
\* iteration of the loop the transition taken as the press (line 74) is a
\* confirmed pressed level and the debounce awaited at the end of the
\* iteration (line 114) consumes a release.
C4_StrictPressRelease ==
    \A b \in Button :
        (rets[b] # <<>> /\ rets[b][1][2] = "Low") =>
            \A i \in 1..Len(rets[b]) :
                /\ rets[b][i][1] = FirstDebounce => rets[b][i][2] = "Low"
                /\ rets[b][i][1] = ThirdDebounce => rets[b][i][2] = "High"

(* -------------------------------------------------------------------- C5 *)

\* C5 as stated: once the first press has selected a button (its LED is
\* On), the system is never again in a state where no button is selected:
\* no step leads from a state with an LED On to a state with all four LEDs
\* Off.
C5_NeverAllOffAfterFirstPress == [][OnSet # {} => OnSet' # {}]_vars

\* C5 as amended: all four LEDs are Off before any press; once a dispatch
\* has been made, some LED is On in every state in which every channel is
\* drained, no task is suspended between its four sends and the dispatches
\* reached the four channels in the same order.
C5_SomeOnWhenDrained ==
    /\ lastPressed = "none" => OnSet = {}
    /\ (/\ Drained /\ NoDispatchInProgress /\ SameOrder
        /\ \E b \in Button : Dispatches(b) > 0) => OnSet # {}

\* A second dispatch has been made and drained, and an LED is on.
C5_Witness ==
    /\ Drained /\ NoDispatchInProgress /\ SameOrder
    /\ \E b \in Button : Dispatches(b) > 0
    /\ \E c \in Button : Len(consumed[c]) >= 2
    /\ OnSet # {}

(* -------------------------------------------------------------------- C6 *)

\* debounce() of button b returns in this step.
Returns(b) == Len(rets'[b]) > Len(rets[b])

\* The level the latest debounce() return of button b reported.
LastLevel(b) == rets[b][Len(rets[b])][2]

\* C6: if the line has left its level after debounce() sampled it and is
\* back at that level when the debounce window has elapsed, debounce()
\* does not return for that excursion and keeps waiting: the poll after
\* the window reports nothing and leaves the task waiting for the next
\* edge in the same debounce call; and debounce() never returns while
\* the line is at the level it sampled.
C6_NoFalseTransition ==
    [][\A b \in Button :
          /\ (/\ bpc[b] = "wait_timer" /\ line[b] = l1[b]
              /\ bpc'[b] # "wait_timer")
                => /\ ~Returns(b)
                   /\ bpc'[b] = "wait_edge"
                   /\ site'[b] = site[b]
                   /\ l1'[b] = l1[b]
          /\ Returns(b) => line[b] # l1[b]]_vars

\* A debounce call of some button has seen the line leave and come back,
\* has reported nothing and waits for the next edge.
C6_Witness ==
    \E b \in Button :
        /\ bpc[b] = "wait_edge"
        /\ callEdges[b] >= 2
        /\ line[b] = l1[b]

(* -------------------------------------------------------------------- C7 *)

\* C7 as stated: whenever debounce() returns a level, the line has held
\* that level for the full debounce window since the last edge on it.
C7_HeldFullWindow ==
    [][\A b \in Button : Returns(b) => held[b] = WindowTicks]_vars

\* C7 as amended: whenever debounce() returns, the timer started at the
\* first edge has run out, the level returned is the level of the line at
\* that moment and differs from the level sampled before the edge; the line
\* has held it for the full window if that edge was the only one during
\* the call.
C7_LevelAtWindowEnd ==
    [][\A b \in Button :
          Returns(b) =>
              /\ timer[b] = 0
              /\ line[b] # l1[b]
              /\ rets'[b] = Append(rets[b], <<site[b], line[b]>>)
              /\ callEdges[b] = 1 => held[b] = WindowTicks]_vars

\* debounce() has returned a level after three edges, the last of which
\* fell inside the window: the line had not held the level for the window.
C7_Witness ==
    \E b \in Button :
        /\ rets[b] # <<>>
        /\ retEdges[b] >= 3
        /\ held[b] < WindowTicks
        /\ LastLevel(b) = line[b]

(* -------------------------------------------------------------------- C8 *)

\* The lines have settled: the environment makes no further level change.
Settled == edges = MaxTimedEdges

\* read_button(b) is inside a debounce call that has seen an edge.
PendingWithEdges(b) ==
    /\ bpc[b] \in {"wait_edge", "wait_timer"}
    /\ callEdges[b] > 0

\* The debounce call that saw the edges has returned the level of the line,
\* and no call of debounce() is returning anything else.
ReturnedFinal(b) ==
    /\ callEdges[b] = 0
    /\ rets[b] # <<>>
    /\ LastLevel(b) = line[b]
    /\ bpc[b] # "wait_timer"

\* C8 as stated: once the line has settled, a pending debounce() that saw
\* the edges eventually returns the final level, and returns it once.
C8_EventuallyReturnsFinal ==
    \A b \in Button :
        (Settled /\ PendingWithEdges(b)) ~> []ReturnedFinal(b)

\* C8 as amended: once the line has settled at a level that differs from
\* the level debounce() sampled when it was called, the pending debounce()
\* eventually returns the final level, and returns it once.
C8_ReturnsFinalIfChanged ==
    \A b \in Button :
        (Settled /\ PendingWithEdges(b) /\ line[b] # l1[b])
            ~> []ReturnedFinal(b)

\* The lines have settled and a debounce call has returned the final level
\* after three edges.
C8_Witness ==
    /\ Settled
    /\ \E b \in Button : retEdges[b] >= 3 /\ ReturnedFinal(b)

(* -------------------------------------------------------------------- C9 *)

SentBy(b, c) == Cardinality({i \in 1..Len(sent[c]) : sent[c][i][2] = b})

\* C10: a channel never holds more commands than its capacity; a task
\* suspended at a send has sent exactly the commands before that send and
\* none after it (it keeps the command and does not skip ahead), and a task
\* not suspended at a send has sent all four commands of every dispatch.
C10_BackPressure ==
    /\ \A c \in Button : Len(channel[c]) <= slots
    /\ \A b \in Button :
          /\ sendIdx[b] \in 1..4
          /\ bpc[b] # "send" => sendIdx[b] = 1
          /\ LET n == Dispatches(b)
             IN \A k \in 1..4 :
                   SentBy(b, Dispatch(b)[k][1]) =
                       IF bpc[b] = "send" /\ k >= sendIdx[b] THEN n - 1 ELSE n

\* A task is suspended at its second or a later send, on a full channel.
C10_Witness ==
    \E b \in Button :
        /\ bpc[b] = "send"
        /\ sendIdx[b] > 1
        /\ IsFull(channel[Dispatch(b)[sendIdx[b]][1]])

(* ------------------------------------------------------------------- C11 *)

\* read_button(b) has finished a dispatch: all four commands of each of its
\* dispatches are sent and the task waits in the debounce of line 114.
DispatchDone(b) ==
    /\ bpc[b] \in {"wait_edge", "wait_timer"}
    /\ site[b] = ThirdDebounce
    /\ \A c \in Button : SentBy(b, c) = Dispatches(b)

\* C11: under fair scheduling, every send a button task is suspended at
\* eventually completes: the dispatch finishes all four sends and the task
\* is back waiting for the next transition.
C11_SendsComplete ==
    \A b \in Button : (bpc[b] = "send") ~> DispatchDone(b)

\* A task that was suspended at a send has finished its dispatch.
C11_Witness ==
    \E b \in suspended : DispatchDone(b)

(* ------------------------------------------------------------------- C12 *)

\* C12: the LED output of a set_led task is Low if the task has consumed no
\* command yet, and otherwise High exactly when the most recent command it
\* consumed was On and Low exactly when it was Off.  The commands consumed
\* change only when the task receives one, so the output changes at no
\* other time.
C12_OutputFollowsLastCommand ==
    \A c \in Button :
        led[c] = IF consumed[c] = <<>> THEN "Low"
                 ELSE IF consumed[c][Len(consumed[c])] = "On" THEN "High"
                 ELSE "Low"

\* An LED has been switched on and off again by its commands.
C12_Witness ==
    \E c \in Button :
        /\ Len(consumed[c]) >= 2
        /\ consumed[c][Len(consumed[c]) - 1] = "On"
        /\ consumed[c][Len(consumed[c])] = "Off"
        /\ led[c] = "Low"

(* ------------------------------------------------------------------- C13 *)

\* C13: a set_led task never applies two commands back to back: between
\* two sleeps of 250 ms it applies at most one command, also when several
\* commands are queued in its channel.
C13_OneCommandPerPoll ==
    [][\A c \in Button : Len(consumed'[c]) <= Len(consumed[c]) + 1]_vars

(* ------------------------------------------------------------------- C14 *)

\* The category of the bucket that contains the duration d.
Category(d) ==
    IF d < HeldTicks THEN "ShortPress"
    ELSE IF d <= LongTicks THEN "MediumPress" ELSE "Released"

\* The texts read_button(b) has logged.
Texts(b) == {logged[b][i][1] : i \in 1..Len(logged[b])}

Dispatched == \E b \in Button : Dispatches(b) > 0

DispatchesAtOnce(b) ==
    /\ bpc[b] = "wait_timer"
    /\ site[b] = SecondDebounce
    /\ Returns(b)
    /\ bpc'[b] # "send"

TwiceInARow(x) ==
    \A c \in Button :
        /\ Len(sent[c]) >= 2
        /\ sent[c][Len(sent[c])][2] = x
        /\ sent[c][Len(sent[c]) - 1][2] = x

\* C16: Off commands applied to an LED that is Off leave it Off, and after
\* two consecutive dispatches by the same button x, once the channels are
\* drained, the LED of x is On and the others are Off, as after a single
\* dispatch by x.
C16_DispatchIdempotent ==
    [][/\ \A c \in Button :
             (/\ led[c] = "Low"
              /\ Len(consumed'[c]) > Len(consumed[c])
              /\ \A i \in (Len(consumed[c]) + 1)..Len(consumed'[c]) :
                    consumed'[c][i] = "Off")
                => led'[c] = "Low"
       /\ \A x \in Button :
             (TwiceInARow(x)' /\ Drained' /\ NoDispatchInProgress')
                => OnSet' = {x}]_vars

\* A button has dispatched twice in a row and the channels are drained.
C16_Witness ==
    \E x \in Button :
        /\ TwiceInARow(x) /\ Drained /\ NoDispatchInProgress
        /\ OnSet = {x}

(* ------------------------------------------------------------------- C17 *)

\* C17: a command on channel c is On exactly when task c sent it; a task
\* that is not in the middle of a dispatch has sent one command per channel
\* for each of its dispatches; and the LED of button c is High only if
\* read_button(c) has returned from debounce() at least twice, the second
\* time at line 80, and has sent On on channel c.
C17_OnOnlyFromOwnTask ==
    /\ \A c \in Button : \A i \in 1..Len(sent[c]) :
          sent[c][i][1] = "On" <=> sent[c][i][2] = c
    /\ \A b \in Button :
          bpc[b] # "send" =>
              LET n == SentBy(b, b)
              IN \A c \in Button \ {b} : SentBy(b, c) = n
    /\ \A c \in Button :
          led[c] = "High" =>
              /\ Len(rets[c]) >= 2
              /\ rets[c][2][1] = SecondDebounce
              /\ \E i \in 1..Len(sent[c]) : sent[c][i] = <<"On", c>>

\* An LED is High while another button has dispatched as well.
C17_Witness ==
    \E c \in Button :
        /\ led[c] = "High"
        /\ \E b \in Button \ {c} : Dispatches(b) >= 1 /\ bpc[b] # "send"

(* ------------------------------------------------------------------- C18 *)

\* The read_button tasks that have passed their spawn of set_led.
Reading == {b \in Button : bpc[b] \notin {"unspawned", "start", "halted"}}

\* C18: no spawn fails, so nothing halts; the instances of read_button and
\* of set_led never exceed their pools of four; once main has run there
\* are exactly four read_button tasks, one per button; a read_button task
\* that reads its button has spawned its set_led before, and there is
\* exactly one set_led for each such task, which has consumed only what
\* was sent on that task's own channel.
C18_SpawnsNeverFail ==
    /\ mainpc # "halted"
    /\ \A b \in Button : bpc[b] # "halted" /\ apc[b] # "halted"
    /\ pool.read_button <= ReadButtonPool
    /\ pool.set_led <= SetLedPool
    /\ pool.read_button = Cardinality({b \in Button : bpc[b] # "unspawned"})
    /\ mainpc = "loop" => pool.read_button = 4
    /\ pool.set_led = Cardinality(Reading)
    /\ \A b \in Button :
          /\ b \in Reading <=> apc[b] # "unspawned"
          /\ Len(consumed[b]) <= Len(sent[b])

\* All four read_button tasks and all four set_led tasks run, and a button
\* has been read.
C18_Witness ==
    /\ pool = [read_button |-> 4, set_led |-> 4]
    /\ Started
    /\ \E b \in Button : rets[b] # <<>>

====
